---- MODULE Spec2Model ----
(***************************************************************************)
(* Model of the PrivateRetirementPlanner contract                          *)
(* (src/frontend/web/src/App.tsx, lines 825-972): the per-address          *)
(* encrypted financial record, the per-address simulation result, the      *)
(* two request operations and their two callbacks, and the two reads.      *)
(* Every public function is one atomic action (one transaction); a         *)
(* reverted transaction changes nothing but the receipt `last`.            *)
(***************************************************************************)
EXTENDS Integers, Sequences, FiniteSets, TLC

\* ---------------------------------------------------------------- bounds
MaxRequests == 2
\* submitPlan calls made by one client
MaxPlans == 2

\* ------------------------------------------------------------- constants
FIXED_PERCENTAGE == 1
INFLATION_ADJUSTED == 2
DYNAMIC_SPENDING == 3

\* revert reasons of the contract's require statements
DataOwnerRequired == "No data submitted"
AlreadySimulated == "Simulation already completed"
SimulationNotCompleted == "Simulation not completed"
\* FHE.checkSignatures reverts: the one failure of both callbacks' check;
\* the contract has no separate unknown-request and invalid-proof errors
SignatureCheckFailed == "checkSignatures reverted"
UnknownRequest == SignatureCheckFailed
InvalidProof == SignatureCheckFailed
\* abi.decode / array index failure
DecodeFailed == "decode reverted"
Ok == "ok"

\* ----------------------------------------------------------------- types
\* addresses: every address can be msg.sender of every public function
Owners == {"a1", "a2"}
NoAddress == "0x0"

\* euint32 handles: 0 is the uninitialized handle
isInitialized(h) == h # 0

\* FHE.asEuint32(v): the handle of the trivial encryption of v, never the
\* uninitialized handle
asEuint32(v) == v + 1

EncryptedFinancialData(a, i, r, l, t) ==
  [encryptedAssets |-> a, encryptedAnnualIncome |-> i,
   encryptedRetirementAge |-> r, encryptedLifeExpectancy |-> l,
   encryptedTargetIncome |-> t]

SimulationResult(s, w, p, b) ==
  [encryptedStrategy |-> s, encryptedWithdrawal |-> w,
   encryptedSuccessRate |-> p, isSimulated |-> b]

\* arguments of submitEncryptedData: the function takes any five handles;
\* tried are five initialized handles, and four initialized handles after an
\* uninitialized one
SubmitInputs ==
  {EncryptedFinancialData(1, 1, 1, 1, 1),
   EncryptedFinancialData(0, 1, 1, 1, 1)}

\* callback payloads, decoded: uint32[] of length 3 (a simulation result
\* <<strategy, withdrawal, successRate>>) or a single uint32 (a cleartext);
\* the strategies tried are the largest of the enumeration and the first
\* value outside it
Strategies == {DYNAMIC_SPENDING, DYNAMIC_SPENDING + 1}
SimPayload(s) == <<s, s + 1, s + 2>>
ClearPayload(s) == <<s>>
SimPayloads == {SimPayload(s) : s \in Strategies}
ClearPayloads == {ClearPayload(s) : s \in Strategies}

\* a proof binds a request identifier and a payload under a signer
TrustedOracle == "oracle"
Proof(requestId, payload, signer) ==
  [requestId |-> requestId, payload |-> payload, signer |-> signer]

\* the arguments (requestId, payload, proof) of a callback
Callback(requestId, payload, proof) ==
  [requestId |-> requestId, payload |-> payload, proof |-> proof]

\* the callbacks tried, for identifiers `ids` of which `issued` are issued:
\* each payload with the oracle's proof of exactly that identifier and
\* payload; and, for an issued identifier, the payload `p` with the oracle's
\* proof of another identifier, the oracle's proof of another payload, and
\* a proof by another signer
CallbackInputs(ids, issued, payloads, p, q) ==
  {Callback(id, x, Proof(id, x, TrustedOracle)) : id \in ids, x \in payloads}
  \cup {Callback(id, p, Proof(id + 1, p, TrustedOracle)) : id \in issued}
  \cup {Callback(id, p, Proof(id, q, TrustedOracle)) : id \in issued}
  \cup {Callback(id, p, Proof(id, p, "other")) : id \in issued}

\* ----------------------------------------------------------------- state
VARIABLES
  userFinancialData,   \* mapping(address => EncryptedFinancialData)
  simulationResults,   \* mapping(address => SimulationResult)
  requests,            \* requests handed to the FHE dispatcher, by identifier
  submitted,           \* history: addresses with a FinancialDataSubmitted event
  fulfilled,           \* history: identifiers completed by their own callback
  last,                \* receipt of the latest transaction or call
  storage,             \* the key/value contract the web client stores plans in
  client               \* each web client's position in submitPlan and its locals

\* the state of the PrivateRetirementPlanner contract, and of the web client
contractVars == <<userFinancialData, simulationResults, requests, submitted, fulfilled, last>>
clientVars == <<storage, client>>

vars == <<contractVars, clientVars>>

Event(name, user) == [name |-> name, user |-> user]

\* the receipt: function called, msg.sender, the outcome and the events
\* logged; for a callback also the request identifier presented and whether
\* the proof presented was the oracle's proof of exactly that identifier and
\* the payload presented
Receipt(op, caller, requestId, authentic, status, logs) ==
  [op |-> op, caller |-> caller, requestId |-> requestId,
   authentic |-> authentic, status |-> status, logs |-> logs]

\* mutant of a revert: a rejected callback drops the latest request when it
\* is the one presented
Revert_DropsRequest(op, caller, requestId, authentic, reason) ==
  /\ last' = Receipt(op, caller, requestId, authentic, reason, {})
  /\ requests' = IF requestId # 0 /\ requestId = Len(requests)
                   THEN SubSeq(requests, 1, Len(requests) - 1)
                   ELSE requests
  /\ UNCHANGED <<userFinancialData, simulationResults, submitted, fulfilled, clientVars>>

\* a reverted transaction: storage, dispatcher and event log are untouched;
\* the receipt of a reverted callback keeps the identifier presented and
\* not the sender, on which no check of a callback depends
Revert(op, caller, requestId, authentic, reason) ==
  /\ last' = Receipt(op, caller, requestId, authentic, reason, {})
  /\ UNCHANGED <<userFinancialData, simulationResults, requests, submitted, fulfilled, clientVars>>

\* ------------------------------------------------- web client (App.tsx)
Clients == {"c1", "c2"}

\* bytes returned by getData: the empty bytes of a key never set, or the
\* UTF-8 bytes of a JSON text
NoBytes == [length |-> 0, json |-> <<>>]

\* ethers.toUtf8Bytes(JSON.stringify(x)) and JSON.parse(ethers.toUtf8String(b))
stringify(x) == [length |-> 1, json |-> x]
parse(b) == b.json

\* planId: `${Date.now()}-${random}`, unique per call; here the client and
\* the number of its call
PlanId(c, n) == <<c, n>>
PlanIds == {PlanId(c, n) : c \in Clients, n \in 1..MaxPlans}

\* the keys of the store: "plan_keys" and `plan_${planId}`
KeysKey == <<"plan_keys">>
PlanKey(id) == <<"plan_", id>>
DataKeys == {KeysKey} \cup {PlanKey(id) : id \in PlanIds}

\* the plan object written under plan_<id>
PlanData(c) == [owner |-> c, status |-> "active"]

\* a client outside submitPlan, nothing submitted yet
IdleClient ==
  [pc |-> "idle", planId |-> <<>>, keys |-> <<>>, count |-> 0, failed |-> FALSE]

Init ==
  /\ storage = [k \in DataKeys |-> NoBytes]
  /\ client = [c \in Clients |-> IdleClient]
  /\ userFinancialData = [o \in Owners |-> EncryptedFinancialData(0, 0, 0, 0, 0)]
  /\ simulationResults = [o \in Owners |-> SimulationResult(0, 0, 0, FALSE)]
  /\ requests = <<>>
  /\ submitted = {}
  /\ fulfilled = {}
  /\ last = Receipt("constructor", NoAddress, 0, TRUE, Ok, {})

\* mutants of onlyDataOwner: the modifier left off, and the modifier testing
\* the result mapping instead of the record
onlyDataOwner_Unchecked(sender) == TRUE
onlyDataOwner_ChecksResult(sender) ==
  isInitialized(simulationResults[sender].encryptedWithdrawal)

\* modifier onlyDataOwner
onlyDataOwner(sender) == isInitialized(userFinancialData[sender].encryptedAssets)

\* mutant of submitEncryptedData: the previous simulation is not reset
SubmitEncryptedData_NoReset(sender, data) ==
  /\ userFinancialData' = [userFinancialData EXCEPT ![sender] = data]
  /\ submitted' = submitted \cup {sender}
  /\ last' = Receipt("submitEncryptedData", sender, 0, TRUE, Ok,
                     {Event("FinancialDataSubmitted", sender)})
  /\ UNCHANGED <<simulationResults, requests, fulfilled, clientVars>>

\* submitEncryptedData
SubmitEncryptedData(sender, data) ==
  /\ userFinancialData' = [userFinancialData EXCEPT ![sender] = data]
  /\ simulationResults' = [simulationResults EXCEPT ![sender] =
       SimulationResult(asEuint32(0), asEuint32(0), asEuint32(0), FALSE)]
  /\ submitted' = submitted \cup {sender}
  /\ last' = Receipt("submitEncryptedData", sender, 0, TRUE, Ok,
                     {Event("FinancialDataSubmitted", sender)})
  /\ UNCHANGED <<requests, fulfilled, clientVars>>

\* the dispatcher's record of a request: FHE.requestComputation and
\* FHE.requestDecryption are handed the callback selector by msg.sender's
\* transaction; the identifier returned is the request's position
Request(kind, user) == [kind |-> kind, user |-> user]

IssuedIds == 1..Len(requests)

\* request identifiers a callback is tried with: the issued ones and the
\* next one, which is not issued
RequestIds == 1..(Len(requests) + 1)

\* requestRetirementSimulation
RequestRetirementSimulation(sender) ==
  IF ~onlyDataOwner(sender)
    THEN Revert("requestRetirementSimulation", sender, 0, TRUE, DataOwnerRequired)
  ELSE IF simulationResults[sender].isSimulated
    THEN Revert("requestRetirementSimulation", sender, 0, TRUE, AlreadySimulated)
  ELSE
    /\ Len(requests) < MaxRequests
    /\ requests' = Append(requests, Request("Simulation", sender))
    /\ last' = Receipt("requestRetirementSimulation", sender, 0, TRUE, Ok,
                       {Event("SimulationRequested", sender)})
    /\ UNCHANGED <<userFinancialData, simulationResults, submitted, fulfilled, clientVars>>

\* the signature check inside FHE.checkSignatures: the proof authenticates
\* exactly (requestId, payload) and is signed by the trusted oracle
verifySignatures(requestId, payload, proof) ==
  /\ proof.requestId = requestId
  /\ proof.payload = payload
  /\ proof.signer = TrustedOracle

\* mutant of checkSignatures: the proof is not verified
checkSignatures_IdOnly(requestId, payload, proof) == requestId \in 1..Len(requests)

\* FHE.checkSignatures(requestId, payload, proof): passes for a request the
\* dispatcher was handed, with a proof that verifies; the contract records
\* nothing about the request before or after it
checkSignatures(requestId, payload, proof) ==
  /\ requestId \in IssuedIds
  /\ verifySignatures(requestId, payload, proof)

\* whether the proof presented is the one the oracle issues for exactly
\* this identifier and payload (a fact about the input, for the receipt)
Authentic(requestId, payload, proof) ==
  proof = Proof(requestId, payload, TrustedOracle)

\* history: a request is completed when the callback it named returns
Fulfil(requestId, kind) ==
  IF requests[requestId].kind = kind THEN fulfilled \cup {requestId} ELSE fulfilled

\* runSimulation: the callback for simulation results
RunSimulation(sender, requestId, results, proof) ==
  IF ~checkSignatures(requestId, results, proof)
    THEN Revert("runSimulation", NoAddress, requestId,
                Authentic(requestId, results, proof), SignatureCheckFailed)
  ELSE IF Len(results) < 3
    THEN Revert("runSimulation", NoAddress, requestId,
                Authentic(requestId, results, proof), DecodeFailed)
  ELSE
    LET simResults == results
        user == sender
    IN /\ simulationResults' = [simulationResults EXCEPT ![user] =
            SimulationResult(asEuint32(simResults[1]), asEuint32(simResults[2]),
                             asEuint32(simResults[3]), TRUE)]
       /\ fulfilled' = Fulfil(requestId, "Simulation")
       /\ last' = Receipt("runSimulation", sender, requestId,
                          Authentic(requestId, results, proof), Ok,
                          {Event("SimulationCompleted", user)})
       /\ UNCHANGED <<userFinancialData, requests, submitted, clientVars>>

\* mutant of requestStrategyDecryption: isSimulated is not required
RequestStrategyDecryption_NoSimCheck(sender) ==
  IF ~onlyDataOwner(sender)
    THEN Revert("requestStrategyDecryption", sender, 0, TRUE, DataOwnerRequired)
  ELSE
    /\ Len(requests) < MaxRequests
    /\ requests' = Append(requests, Request("Decryption", sender))
    /\ last' = Receipt("requestStrategyDecryption", sender, 0, TRUE, Ok, {})
    /\ UNCHANGED <<userFinancialData, simulationResults, submitted, fulfilled, clientVars>>

\* mutant of requestStrategyDecryption: the request clears isSimulated
RequestStrategyDecryption_ClearsFlag(sender) ==
  IF ~onlyDataOwner(sender)
    THEN Revert("requestStrategyDecryption", sender, 0, TRUE, DataOwnerRequired)
  ELSE IF ~simulationResults[sender].isSimulated
    THEN Revert("requestStrategyDecryption", sender, 0, TRUE, SimulationNotCompleted)
  ELSE
    /\ Len(requests) < MaxRequests
    /\ requests' = Append(requests, Request("Decryption", sender))
    /\ simulationResults' = [simulationResults EXCEPT ![sender].isSimulated = FALSE]
    /\ last' = Receipt("requestStrategyDecryption", sender, 0, TRUE, Ok, {})
    /\ UNCHANGED <<userFinancialData, submitted, fulfilled, clientVars>>

\* requestStrategyDecryption
RequestStrategyDecryption(sender) ==
  IF ~onlyDataOwner(sender)
    THEN Revert("requestStrategyDecryption", sender, 0, TRUE, DataOwnerRequired)
  ELSE IF ~simulationResults[sender].isSimulated
    THEN Revert("requestStrategyDecryption", sender, 0, TRUE, SimulationNotCompleted)
  ELSE
    /\ Len(requests) < MaxRequests
    /\ requests' = Append(requests, Request("Decryption", sender))
    /\ last' = Receipt("requestStrategyDecryption", sender, 0, TRUE, Ok, {})
    /\ UNCHANGED <<userFinancialData, simulationResults, submitted, fulfilled, clientVars>>

\* mutant of decryptStrategy: the decoded strategy is stored
DecryptStrategy_StoresStrategy(sender, requestId, cleartexts, proof) ==
  IF ~checkSignatures(requestId, cleartexts, proof)
    THEN Revert("decryptStrategy", NoAddress, requestId,
                Authentic(requestId, cleartexts, proof), SignatureCheckFailed)
  ELSE
    /\ simulationResults' = [simulationResults EXCEPT
         ![sender].encryptedStrategy = cleartexts[1]]
    /\ fulfilled' = Fulfil(requestId, "Decryption")
    /\ last' = Receipt("decryptStrategy", sender, requestId,
                       Authentic(requestId, cleartexts, proof), Ok,
                       {Event("StrategyDecrypted", sender)})
    /\ UNCHANGED <<userFinancialData, requests, submitted, clientVars>>

\* decryptStrategy: the callback for the decrypted strategy; the decoded
\* strategy is a local that is neither stored nor put in the event
DecryptStrategy(sender, requestId, cleartexts, proof) ==
  IF ~checkSignatures(requestId, cleartexts, proof)
    THEN Revert("decryptStrategy", NoAddress, requestId,
                Authentic(requestId, cleartexts, proof), SignatureCheckFailed)
  ELSE
    /\ fulfilled' = Fulfil(requestId, "Decryption")
    /\ last' = Receipt("decryptStrategy", sender, requestId,
                       Authentic(requestId, cleartexts, proof), Ok,
                       {Event("StrategyDecrypted", sender)})
    /\ UNCHANGED <<userFinancialData, simulationResults, requests, submitted, clientVars>>

\* what a view call gives msg.sender: a revert reason, or Ok and a handle
ViewResult(status, returned) == [status |-> status, returned |-> returned]

\* mutant of getEncryptedWithdrawal: the strategy handle is returned
getEncryptedWithdrawal_ReturnsStrategy(sender) ==
  IF ~onlyDataOwner(sender)
    THEN ViewResult(DataOwnerRequired, 0)
    ELSE ViewResult(Ok, simulationResults[sender].encryptedStrategy)

\* getEncryptedWithdrawal (view)
getEncryptedWithdrawal(sender) ==
  IF ~onlyDataOwner(sender)
    THEN ViewResult(DataOwnerRequired, 0)
    ELSE ViewResult(Ok, simulationResults[sender].encryptedWithdrawal)

\* getEncryptedSuccessRate (view)
getEncryptedSuccessRate(sender) ==
  IF ~onlyDataOwner(sender)
    THEN ViewResult(DataOwnerRequired, 0)
    ELSE ViewResult(Ok, simulationResults[sender].encryptedSuccessRate)

\* the getter Solidity generates for the public mapping simulationResults:
\* any msg.sender reads the four members stored for any address
simulationResults_getter(sender, owner) ==
  ViewResult(Ok, simulationResults[owner])

\* the getter Solidity generates for the public mapping userFinancialData
userFinancialData_getter(sender, owner) ==
  ViewResult(Ok, userFinancialData[owner])

\* what the callbacks are tried with: runSimulation with the simulation
\* results and one cleartext, decryptStrategy with the cleartexts and one
\* simulation result
SimulationCallbacks ==
  CallbackInputs(RequestIds, IssuedIds,
                 SimPayloads \cup {ClearPayload(DYNAMIC_SPENDING)},
                 SimPayload(DYNAMIC_SPENDING), SimPayload(DYNAMIC_SPENDING + 1))
DecryptionCallbacks ==
  CallbackInputs(RequestIds, IssuedIds,
                 ClearPayloads \cup {SimPayload(DYNAMIC_SPENDING)},
                 ClearPayload(DYNAMIC_SPENDING), ClearPayload(DYNAMIC_SPENDING + 1))

\* a callback transaction, from any address
RunSimulationCall ==
  \E sender \in Owners, c \in SimulationCallbacks :
    RunSimulation(sender, c.requestId, c.payload, c.proof)
DecryptStrategyCall ==
  \E sender \in Owners, c \in DecryptionCallbacks :
    DecryptStrategy(sender, c.requestId, c.payload, c.proof)

Next ==
  \/ \E sender \in Owners, data \in SubmitInputs : SubmitEncryptedData(sender, data)
  \/ \E sender \in Owners : RequestRetirementSimulation(sender)
  \/ RunSimulationCall
  \/ \E sender \in Owners : RequestStrategyDecryption(sender)
  \/ DecryptStrategyCall

Spec == Init /\ [][Next]_vars

\* --------------------------------------------- web client: submitPlan
\* contract.getData(key)
getData(key) == storage[key]

\* submitPlan up to the first transaction: the plan identifier is generated
SubmitPlan(c) ==
  /\ client[c].pc = "idle"
  /\ client[c].count < MaxPlans
  /\ client' = [client EXCEPT ![c].pc = "setPlan",
                              ![c].count = @ + 1,
                              ![c].planId = PlanId(c, client[c].count + 1)]
  /\ UNCHANGED <<storage, contractVars>>

\* await contract.setData(`plan_${planId}`, ...)
SetPlanData(c) ==
  /\ client[c].pc = "setPlan"
  /\ storage' = [storage EXCEPT ![PlanKey(client[c].planId)] = stringify(PlanData(c))]
  /\ client' = [client EXCEPT ![c].pc = "getKeys"]
  /\ UNCHANGED contractVars

\* await contract.getData("plan_keys"), the parse, and keys.push(planId)
GetPlanKeys(c) ==
  /\ client[c].pc = "getKeys"
  /\ LET keysBytes == getData(KeysKey)
         keys == IF keysBytes.length > 0 THEN parse(keysBytes) ELSE <<>>
     IN client' = [client EXCEPT ![c].pc = "setKeys",
                                 ![c].keys = Append(keys, client[c].planId)]
  /\ UNCHANGED <<storage, contractVars>>

\* await contract.setData("plan_keys", ...), the last step of a successful call
SetPlanKeys(c) ==
  /\ client[c].pc = "setKeys"
  /\ storage' = [storage EXCEPT ![KeysKey] = stringify(client[c].keys)]
  /\ client' = [client EXCEPT ![c].pc = "idle", ![c].keys = <<>>, ![c].planId = <<>>]
  /\ UNCHANGED contractVars

\* a setData transaction is rejected: the catch block ends the call
SetDataRejected(c) ==
  /\ client[c].pc \in {"setPlan", "setKeys"}
  /\ client' = [client EXCEPT ![c].pc = "idle", ![c].keys = <<>>, ![c].planId = <<>>,
                              ![c].failed = TRUE]
  /\ UNCHANGED <<storage, contractVars>>

\* loadPlans: the identifiers listed, those of plan_keys whose plan_<id>
\* holds bytes
loadPlans ==
  LET keysBytes == getData(KeysKey)
      keys == IF keysBytes.length > 0 THEN parse(keysBytes) ELSE <<>>
  IN {keys[i] : i \in {j \in 1..Len(keys) : getData(PlanKey(keys[j])).length > 0}}

PlanNext ==
  \/ \E c \in Clients : SubmitPlan(c)
  \/ \E c \in Clients : SetPlanData(c)
  \/ \E c \in Clients : GetPlanKeys(c)
  \/ \E c \in Clients : SetPlanKeys(c)
  \/ \E c \in Clients : SetDataRejected(c)

\* two web clients against one key/value contract
PlanSpec == Init /\ [][PlanNext]_vars

\* ------------------------------------------------------------ properties
CallbackOps == {"runSimulation", "decryptStrategy"}

\* a result no transaction has written, the result submitEncryptedData
\* leaves, and the result runSimulation stores for a decoded payload
Untouched == SimulationResult(0, 0, 0, FALSE)
Zeroed == SimulationResult(asEuint32(0), asEuint32(0), asEuint32(0), FALSE)
Stored(p) == SimulationResult(asEuint32(p[1]), asEuint32(p[2]), asEuint32(p[3]), TRUE)

\* C1: a callback (runSimulation or decryptStrategy) presenting an
\* identifier that was never issued, or that an earlier successful callback
\* already consumed, is rejected (whatever the error) and leaves every
\* SimulationResult unchanged, so an identifier completes at most once.
C1_Original ==
  [][(/\ last'.op \in CallbackOps
      /\ \/ last'.requestId \notin IssuedIds
         \/ last'.requestId \in fulfilled)
     => (last'.status # Ok /\ simulationResults' = simulationResults)]_vars

\* C2: a runSimulation callback whose requestId is an issued, outstanding
\* request but whose proof fails verification is rejected as InvalidProof and
\* writes nothing to any SimulationResult (isSimulated and the three fields).
C2_InvalidProofWritesNothing ==
  [][(/\ last'.op = "runSimulation"
      /\ last'.requestId \in IssuedIds
      /\ ~last'.authentic)
     => (last'.status = InvalidProof /\ simulationResults' = simulationResults)]_vars

C2_Witness ==
  /\ last.op = "runSimulation"
  /\ last.requestId \in IssuedIds
  /\ last.requestId \notin fulfilled
  /\ requests[last.requestId].kind = "Simulation"
  /\ ~last.authentic
  /\ last.status = InvalidProof

\* C3: after a successful runSimulation for request R, the SimulationResult
\* of the address that issued R holds a decoded payload with isSimulated
\* true, and SimulationCompleted was emitted for that address, whoever sent
\* the callback.
C3_Original ==
  (last.op = "runSimulation" /\ last.status = Ok)
    => LET owner == requests[last.requestId].user
       IN /\ simulationResults[owner] \in {Stored(p) : p \in SimPayloads}
          /\ last.logs = {Event("SimulationCompleted", owner)}

\* C4: every submitEncryptedData leaves the sender's SimulationResult with
\* isSimulated false and the three fields the encryption of zero, also after
\* a completed simulation, and issues no request.
C4_SubmitResets ==
  [][(last'.op = "submitEncryptedData")
     => (/\ simulationResults'[last'.caller] = Zeroed
         /\ requests' = requests)]_vars

\* the sender had requested a decryption, hence had a completed simulation,
\* before this submit
C4_Witness ==
  /\ last.op = "submitEncryptedData"
  /\ \E id \in IssuedIds : requests[id] = Request("Decryption", last.caller)
  /\ simulationResults[last.caller] = Zeroed

\* the owner an operation is performed by or completed for: msg.sender of
\* a submit or a request, the issuer of the request a callback presents
Subject(receipt) ==
  IF receipt.op \in CallbackOps
    THEN IF receipt.requestId \in IssuedIds
           THEN requests[receipt.requestId].user
           ELSE NoAddress
    ELSE receipt.caller

\* C5: an operation performed by or completed for owner A leaves the
\* financial record and the SimulationResult of every other owner unchanged.
C5_Original ==
  [][\A b \in Owners :
       b # Subject(last')
         => /\ userFinancialData'[b] = userFinancialData[b]
            /\ simulationResults'[b] = simulationResults[b]]_vars

\* C6: requestRetirementSimulation by an address that never submitted fails
\* with DataOwnerRequired, issues no request and changes no state.
C6_NeverSubmittedRejected ==
  [][(/\ last'.op = "requestRetirementSimulation"
      /\ last'.caller \notin submitted)
     => (/\ last'.status = DataOwnerRequired
         /\ UNCHANGED <<userFinancialData, simulationResults, requests>>)]_vars

C6_Witness ==
  /\ last.op = "requestRetirementSimulation"
  /\ last.caller \notin submitted
  /\ submitted # {}
  /\ last.status = DataOwnerRequired

\* C7: for every address that has not submitted, getEncryptedWithdrawal and
\* getEncryptedSuccessRate fail with DataOwnerRequired.
C7_ReadBeforeSubmitFails ==
  \A o \in Owners :
    o \notin submitted
      => /\ getEncryptedWithdrawal(o).status = DataOwnerRequired
         /\ getEncryptedSuccessRate(o).status = DataOwnerRequired

\* one address reads its result while another, which never submitted but
\* has a stored result, is refused
C7_Witness ==
  \E o \in Owners, b \in Owners :
    /\ o \notin submitted
    /\ simulationResults[o] # Untouched
    /\ getEncryptedWithdrawal(o).status = DataOwnerRequired
    /\ b \in submitted
    /\ getEncryptedWithdrawal(b).status = Ok

\* C8 as stated: requestStrategyDecryption by an address whose isSimulated
\* is not true, an address with no record included, fails with
\* SimulationNotCompleted and dispatches no request.
C8_Original ==
  [][(/\ last'.op = "requestStrategyDecryption"
      /\ ~simulationResults[last'.caller].isSimulated)
     => (last'.status = SimulationNotCompleted /\ requests' = requests)]_vars

\* C8 amended: requestStrategyDecryption by an address whose isSimulated is
\* not true fails and dispatches no request; the error is DataOwnerRequired
\* when the address has no initialized record and SimulationNotCompleted
\* otherwise.
C8_Amended ==
  [][(/\ last'.op = "requestStrategyDecryption"
      /\ ~simulationResults[last'.caller].isSimulated)
     => (/\ last'.status =
              IF isInitialized(userFinancialData[last'.caller].encryptedAssets)
                THEN SimulationNotCompleted
                ELSE DataOwnerRequired
         /\ requests' = requests)]_vars

C8_Witness ==
  /\ last.op = "requestStrategyDecryption"
  /\ ~simulationResults[last.caller].isSimulated
  /\ last.caller \in submitted
  /\ last.status = SimulationNotCompleted

\* C9: requestRetirementSimulation by an address whose isSimulated is true
\* fails with AlreadySimulated and dispatches nothing, and isSimulated turns
\* false again only by that address's submit.
C9_Original ==
  [][/\ (/\ last'.op = "requestRetirementSimulation"
         /\ simulationResults[last'.caller].isSimulated)
        => (last'.status = AlreadySimulated /\ requests' = requests)
     /\ \A o \in Owners :
          (simulationResults[o].isSimulated /\ ~simulationResults'[o].isSimulated)
            => (last'.op = "submitEncryptedData" /\ last'.caller = o)]_vars

\* owner o completed a first cycle with request i (completed by
\* runSimulation, and sent by o, no other address having a result written),
\* was reset by a later submit, and has just issued the simulation request
\* of the second cycle
SecondCycleRequested(o, i) ==
  /\ last.op = "requestRetirementSimulation"
  /\ last.status = Ok
  /\ last.caller = o
  /\ i < Len(requests)
  /\ requests[i] = Request("Simulation", o)
  /\ i \in fulfilled
  /\ \A b \in Owners \ {o} : simulationResults[b] = Untouched

\* C10: once an owner's first cycle has completed with identifier i and the
\* second cycle has been requested under its own identifier, a runSimulation
\* presenting i again is rejected and does not change the owner's
\* SimulationResult.
C10_Original ==
  [][\A o \in Owners, i \in IssuedIds :
       (/\ SecondCycleRequested(o, i)
        /\ last'.op = "runSimulation"
        /\ last'.requestId = i)
         => (last'.status # Ok /\ simulationResults'[o] = simulationResults[o])]_vars

\* errors the specification names and no statement of the contract raises
NotOwner == "NotOwner"
InvalidCiphertext == "InvalidCiphertext"

\* C11: an owner's withdrawal and success-rate handles are read only by
\* that owner: a read of an owner's stored SimulationResult by any other
\* caller fails with NotOwner and returns none of the owner's handles.
C11_Original ==
  \A caller \in Owners, owner \in Owners :
    (caller # owner /\ isInitialized(simulationResults[owner].encryptedWithdrawal))
      => simulationResults_getter(caller, owner).status = NotOwner

\* C12: after a successful decryptStrategy for request R, the one event
\* logged is StrategyDecrypted naming the address that issued R and carrying
\* a strategy value (the decoded cleartext).
C12_Original ==
  (/\ last.op = "decryptStrategy"
   /\ last.status = Ok
   /\ requests[last.requestId].kind = "Decryption")
    => \E s \in 0..(DYNAMIC_SPENDING + 1) :
         last.logs = {[name |-> "StrategyDecrypted",
                       user |-> requests[last.requestId].user,
                       strategy |-> s]}

\* C13: requestStrategyDecryption and decryptStrategy, successful or not,
\* leave every address's financial record and SimulationResult unchanged;
\* these two mappings being all of the contract's storage, the cleartext
\* strategy is stored nowhere.
C13_DecryptionFrame ==
  [][(last'.op \in {"requestStrategyDecryption", "decryptStrategy"})
     => UNCHANGED <<userFinancialData, simulationResults>>]_vars

\* a decryption request of an owner with a completed simulation was
\* answered by decryptStrategy
C13_Witness ==
  /\ last.op = "decryptStrategy"
  /\ last.status = Ok
  /\ last.authentic
  /\ requests[last.requestId] = Request("Decryption", last.caller)
  /\ simulationResults[last.caller].isSimulated

\* C14: a simulation result whose strategy is outside {1, 2, 3} is never
\* stored: wherever isSimulated is true the stored strategy is the
\* encryption of FIXED_PERCENTAGE, INFLATION_ADJUSTED or DYNAMIC_SPENDING.
C14_Original ==
  \A o \in Owners :
    simulationResults[o].isSimulated
      => simulationResults[o].encryptedStrategy \in
           {asEuint32(FIXED_PERCENTAGE), asEuint32(INFLATION_ADJUSTED),
            asEuint32(DYNAMIC_SPENDING)}

AllInitialized(data) ==
  /\ isInitialized(data.encryptedAssets)
  /\ isInitialized(data.encryptedAnnualIncome)
  /\ isInitialized(data.encryptedRetirementAge)
  /\ isInitialized(data.encryptedLifeExpectancy)
  /\ isInitialized(data.encryptedTargetIncome)

\* C15: submitEncryptedData with an uninitialized handle among its five
\* arguments is rejected with InvalidCiphertext and changes neither the
\* record nor the SimulationResult; so a submit that succeeds, which stores
\* its five arguments, stores five initialized handles.
C15_Original ==
  [][(last'.op = "submitEncryptedData")
     => \/ AllInitialized(userFinancialData'[last'.caller])
        \/ /\ last'.status = InvalidCiphertext
           /\ UNCHANGED <<userFinancialData, simulationResults>>]_vars

\* C16: owner o has an outstanding simulation request i and has just
\* submitted again; a runSimulation presenting i then never sets isSimulated
\* on o's SimulationResult.
C16_Original ==
  [][\A o \in Owners, i \in IssuedIds :
       (/\ last.op = "submitEncryptedData"
        /\ last.caller = o
        /\ requests[i] = Request("Simulation", o)
        /\ i \notin fulfilled
        /\ last'.op = "runSimulation"
        /\ last'.requestId = i)
         => ~simulationResults'[o].isSimulated]_vars

\* C17: runSimulation presented with an identifier issued by
\* requestStrategyDecryption, and decryptStrategy presented with an
\* identifier issued by requestRetirementSimulation, are rejected with
\* UnknownRequest and change no state.
C17_Original ==
  [][(/\ last'.requestId \in IssuedIds
      /\ \/ /\ last'.op = "runSimulation"
            /\ requests[last'.requestId].kind = "Decryption"
         \/ /\ last'.op = "decryptStrategy"
            /\ requests[last'.requestId].kind = "Simulation")
     => (/\ last'.status = UnknownRequest
         /\ UNCHANGED <<userFinancialData, simulationResults, requests>>)]_vars

\* C18: an owner whose simulation request has just been issued (no callback
\* delivered, no resubmission) and who calls requestRetirementSimulation
\* again is rejected and no second request is dispatched.
C18_Original ==
  [][(/\ last.op = "requestRetirementSimulation"
      /\ last.status = Ok
      /\ last'.op = "requestRetirementSimulation"
      /\ last'.caller = last.caller)
     => (last'.status # Ok /\ requests' = requests)]_vars

\* the latest transaction was a runSimulation rejected for its proof, for
\* request i, which no callback has completed (a proof other than the
\* oracle's own is presented for issued identifiers only); the request, as
\* long as the dispatcher holds it, is a simulation request
ProofJustFailed(i) ==
  /\ last.op = "runSimulation"
  /\ last.requestId = i
  /\ ~last.authentic
  /\ last.status = InvalidProof
  /\ i \notin fulfilled
  /\ i \in IssuedIds => requests[i].kind = "Simulation"

\* runSimulation for request i with result p and the oracle's proof of
\* them, sent by sender, can be made and succeeds
ValidCallbackSucceeds(sender, i, p) ==
  ENABLED (/\ RunSimulation(sender, i, p, Proof(i, p, TrustedOracle))
           /\ last'.status = Ok
           /\ simulationResults'[sender] = Stored(p))

\* C19: a runSimulation rejected for its proof does not consume the
\* request: after it, runSimulation with the same identifier and a valid
\* proof still succeeds.
C19_FailedProofKeepsRequest ==
  \A i \in RequestIds :
    ProofJustFailed(i)
      => \A sender \in Owners, p \in SimPayloads : ValidCallbackSucceeds(sender, i, p)

C19_Witness ==
  \E i \in IssuedIds :
    /\ ProofJustFailed(i)
    /\ requests[i].kind = "Simulation"
    /\ ValidCallbackSucceeds(requests[i].user, i, SimPayload(DYNAMIC_SPENDING))

\* C20: every address's record is either absent (no field initialized) or
\* fully populated (all five fields initialized), and the owner guard holds
\* exactly when all five fields are initialized.
C20_Original ==
  \A o \in Owners :
    /\ \/ AllInitialized(userFinancialData[o])
       \/ userFinancialData[o] = EncryptedFinancialData(0, 0, 0, 0, 0)
    /\ onlyDataOwner(o) <=> AllInitialized(userFinancialData[o])

\* C21: an address whose isSimulated is true has a populated financial
\* record and has issued a simulation request: Completed is not reached
\* from NoData, nor without a request of that address.
C21_Original ==
  \A o \in Owners :
    simulationResults[o].isSimulated
      => /\ AllInitialized(userFinancialData[o])
         /\ \E i \in IssuedIds : requests[i] = Request("Simulation", o)

\* the dispatcher delivers the callback of simulation request i: runSimulation
\* with a well-formed result and the oracle's proof, once, from some address
Deliver(i) ==
  /\ i \in IssuedIds
  /\ i \notin fulfilled
  /\ requests[i].kind = "Simulation"
  /\ \E sender \in Owners, p \in SimPayloads :
       RunSimulation(sender, i, p, Proof(i, p, TrustedOracle))

\* the contract with a dispatcher that eventually delivers one valid
\* callback for every simulation request issued
FairSpec == Spec /\ \A i \in 1..MaxRequests : WF_vars(Deliver(i))

\* C22: with every issued simulation request eventually answered by one
\* valid callback, a successful requestRetirementSimulation by an owner is
\* eventually followed by isSimulated = true for that owner, unless the
\* owner submits again.
C22_Original ==
  \A o \in Owners :
    (/\ last.op = "requestRetirementSimulation"
     /\ last.status = Ok
     /\ last.caller = o)
      ~> (\/ simulationResults[o].isSimulated
          \/ (last.op = "submitEncryptedData" /\ last.caller = o))

\* C23: isSimulated of an address turns true only in a successful
\* runSimulation and turns false only in a successful submitEncryptedData of
\* that address; the two requests, decryptStrategy and every failed
\* transaction leave every isSimulated as it was.
C23_FlagChanges ==
  [][\A o \in Owners :
       /\ (~simulationResults[o].isSimulated /\ simulationResults'[o].isSimulated)
            => (last'.op = "runSimulation" /\ last'.status = Ok)
       /\ (simulationResults[o].isSimulated /\ ~simulationResults'[o].isSimulated)
            => (/\ last'.op = "submitEncryptedData"
                /\ last'.status = Ok
                /\ last'.caller = o)
       /\ (\/ last'.status # Ok
           \/ last'.op \in {"requestRetirementSimulation",
                           "requestStrategyDecryption", "decryptStrategy"})
            => (simulationResults'[o].isSimulated = simulationResults[o].isSimulated)]_vars

\* an owner whose simulation completed, and whose decryption request was
\* answered, has submitted again and has isSimulated false
C23_Witness ==
  /\ last.op = "submitEncryptedData"
  /\ last.status = Ok
  /\ ~simulationResults[last.caller].isSimulated
  /\ \E i \in fulfilled : requests[i] = Request("Decryption", last.caller)

\* C24: requestStrategyDecryption by an address whose isSimulated is true
\* succeeds and dispatches a new request, whatever was requested before.
C24_Original ==
  [][(/\ last'.op = "requestStrategyDecryption"
      /\ simulationResults[last'.caller].isSimulated)
     => (/\ last'.status = Ok
         /\ Len(requests') = Len(requests) + 1)]_vars

C26_Original ==
  (\A c \in Clients : client[c].pc = "idle" /\ ~client[c].failed)
    => \A id \in PlanIds :
         getData(PlanKey(id)).length > 0 => id \in loadPlans

====
